---- MODULE Spec2Model ----
(***************************************************************************)
(* A model of the textlint web checker: the mock diagnostic engine         *)
(* (generateMockLintResult), the word-span resolution used by the snippet  *)
(* extractor (getErrorContext) and by the editor selection (scrollToError),*)
(* the diagnostic filter of the Home view and the debounced lint effect.   *)
(*                                                                         *)
(* A text is a sequence of characters.  A character is a one-token string: *)
(* ASCII characters stand for themselves, every other character of the     *)
(* source is named by an ASCII token (see the character classes below).    *)
(***************************************************************************)
EXTENDS Integers, Sequences, FiniteSets, TLC

VARIABLES
    \* ---- Home view state (React state of the Home component)
    text,           \* useState text
    lintResult,     \* useState lintResult: Null or a LintResult
    filter,         \* useState filter: "all" | "error" | "warning"
    rules,          \* useState rules: the rule registry with its enabled flags
    view,           \* the memoised values of the last render
    \* ---- timers of the lint pipeline
    timers,         \* armed debounce timers (setTimeout of the lint effect)
    inflight,       \* engine invocations: lintText promises not yet resolved
    \* ---- history variables of the pipeline (not program state)
    sinceUpdate,    \* time since the last document update, capped at the delay
    burstLen,       \* document updates of the current burst
    burstCalls,     \* lintText calls made since the current burst began
    calledWith,     \* the argument of the last lintText call
    lastOp,         \* the last operation of the pipeline
    \* ---- one call of the position resolver (pure functions)
    rText, rLine, rColumn, rContextLength,
    context,        \* what getErrorContext returned, Null before the call
    selection,      \* what scrollToError selected, Null before the call
    \* ---- the worker client (TextlintWorkerClient)
    messageId,      \* private messageId: the id of the next request
    callbacks,      \* private callbacks: the ids that have a callback set
    posted,         \* requests posted to the worker and not yet answered
    settled,        \* the promises of lintText settled so far, in order
    \* ---- the first-match copy of the mock engine
    firstMatchResult \* what its lintText returned, Null before the call

viewVars == <<text, lintResult, filter, rules, view>>
pipeVars == <<timers, inflight, sinceUpdate, burstLen, burstCalls, calledWith, lastOp>>
resolveVars == <<rText, rLine, rColumn, rContextLength, context, selection>>
workerVars == <<messageId, callbacks, posted, settled>>
variantVars == <<workerVars, firstMatchResult>>
vars == <<viewVars, pipeVars, resolveVars, variantVars>>

\* An optional value: Null, or Some(x).
Null == <<>>
Some(x) == <<x>>

(***************************************************************************)
(* Bounds of the model.                                                    *)
(***************************************************************************)
MaxTextLen == 4

(***************************************************************************)
(* Characters.  \s of a JavaScript regular expression and String.trim      *)
(* cover the ASCII white space and U+3000 (IDSP).                          *)
(***************************************************************************)
NL == "\n"
WhiteSpace == {" ", "\t", "\r", NL, "IDSP"}
\* U+3001 TOUTEN, U+3002 KUTEN, U+FF0C FWCOMMA, U+FF0E FWPERIOD,
\* U+FF01 FWEXCL, U+FF1F FWQUES
WordBoundary == WhiteSpace \cup
    {"TOUTEN", "KUTEN", "FWCOMMA", "FWPERIOD", "FWEXCL", "FWQUES", "!", "?", ",", "."}

Min(a, b) == IF a < b THEN a ELSE b
Max(a, b) == IF a > b THEN a ELSE b

(***************************************************************************)
(* JavaScript string primitives.                                           *)
(***************************************************************************)
\* String.prototype.substring(a, b): both ends clamped to [0, length], swapped
\* when a > b; indices are 0-based, the end is exclusive.
Substring(s, a, b) ==
    LET ca == Max(0, Min(a, Len(s)))
        cb == Max(0, Min(b, Len(s)))
    IN  SubSeq(s, Min(ca, cb) + 1, Max(ca, cb))

SubstringFrom(s, a) == Substring(s, a, Len(s))

\* String.prototype.indexOf(c) for a single character: 0-based, -1 when absent.
IndexOf(s, c) ==
    IF \E i \in 1..Len(s) : s[i] = c
    THEN (CHOOSE i \in 1..Len(s) : s[i] = c /\ \A j \in 1..(i - 1) : s[j] # c) - 1
    ELSE -1

\* String.prototype.split(sep) for a set of single-character separators: the
\* pieces between separators, empty pieces kept; never an empty list.
RECURSIVE Ascending(_)
Ascending(S) ==
    IF S = {} THEN <<>>
    ELSE LET least == CHOOSE x \in S : \A y \in S : x <= y
         IN  <<least>> \o Ascending(S \ {least})

Split(s, seps) ==
    LET cuts == <<0>> \o Ascending({i \in 1..Len(s) : s[i] \in seps}) \o <<Len(s) + 1>>
    IN  [k \in 1..(Len(cuts) - 1) |-> SubSeq(s, cuts[k] + 1, cuts[k + 1] - 1)]

\* !text.trim(): the text is empty or white space only.
IsBlank(s) == \A i \in 1..Len(s) : s[i] \in WhiteSpace

(***************************************************************************)
(* Word span: /^[^\s...]+/ matched against the rest of the line.           *)
(***************************************************************************)
\* The length of the match of /^[^\s,.!? ...]+/ (greedy), 0 for no match.
WordMatchLength(rest) ==
    LET stops == {i \in 1..Len(rest) : rest[i] \in WordBoundary}
    IN  IF stops = {} THEN Len(rest)
        ELSE (CHOOSE i \in stops : \A j \in stops : i <= j) - 1

SpanLengthNoFallback(rest) == WordMatchLength(rest)

\* wordMatch ? wordMatch[0].length : 1
SpanLength(rest) ==
    IF WordMatchLength(rest) > 0 THEN WordMatchLength(rest) ELSE 1

Ellipsis == <<".", ".", ".">>

(***************************************************************************)
(* getErrorContext(text, line, column, contextLength).                     *)
(***************************************************************************)
GetErrorContext(t, line, column, contextLength) ==
    LET lines == Split(t, {NL})
    IN  IF line < 1 \/ line > Len(lines)
        THEN [before |-> <<>>, error |-> <<>>, after |-> <<>>]
        ELSE
        LET lineText == lines[line]
            errorStart == Max(0, column - 1)
            restOfLine == SubstringFrom(lineText, errorStart)
            errorLength == SpanLength(restOfLine)
            errorEnd == errorStart + errorLength
            beforeStart == Max(0, errorStart - contextLength)
            afterEnd == Min(Len(lineText), errorEnd + contextLength)
        IN  [before |-> (IF beforeStart > 0 THEN Ellipsis ELSE <<>>)
                        \o Substring(lineText, beforeStart, errorStart),
             error  |-> Substring(lineText, errorStart, errorEnd),
             after  |-> Substring(lineText, errorEnd, afterEnd)
                        \o (IF afterEnd < Len(lineText) THEN Ellipsis ELSE <<>>)]

(***************************************************************************)
(* scrollToError(line, column), the textarea being mounted: the character  *)
(* index, the selection length and the selected text.                      *)
(***************************************************************************)
\* for (i = 0; i < line - 1 && i < lines.length; i++) charIndex += len + 1
RECURSIVE LineOffset(_, _)
LineOffset(lines, n) ==
    IF n <= 0 THEN 0
    ELSE LineOffset(lines, n - 1) + Len(lines[n]) + 1

ScrollToError(t, line, column) ==
    LET lines == Split(t, {NL})
        charIndex == LineOffset(lines, Min(line - 1, Len(lines))) + column - 1
        \* lines[line - 1]?.substring(column - 1) || ''
        restOfLine == IF line >= 1 /\ line <= Len(lines)
                      THEN SubstringFrom(lines[line], column - 1)
                      ELSE <<>>
        selectionLength == SpanLength(restOfLine)
    IN  [charIndex |-> charIndex,
         selectionLength |-> selectionLength,
         selectedText |-> Substring(t, charIndex, charIndex + selectionLength)]

(***************************************************************************)
(* Character classes of the rules.  h_ is a hiragana, k_ a katakana and j_ *)
(* a kanji; the tokens are the characters of the phrases of the source.    *)
(***************************************************************************)
\* [！!？?]
ExclamationChars == {"FWEXCL", "!", "FWQUES", "?"}
\* [KUTEN FWPERIOD]
SentenceDelimiters == {"KUTEN", "FWPERIOD"}
\* [ha ga wo ni]
Particles == {"h_ha", "h_ga", "h_wo", "h_ni"}
\* ぀-ゟ
Hiragana == Particles \cup
    {"h_ma", "h_zu", "h_su", "h_ru", "h_ko", "h_to", "h_de", "h_ki", "h_ka",
     "h_mo", "h_shi", "h_re", "h_na", "h_i", "h_u", "h_da", "h_ro", "h_be",
     "h_e", "h_tta", "h_ta", "h_go"}
\* ゠-ヿ
Katakana == {"k_te", "k_su", "k_to"}
\* 一-龯
Kanji == {"j_sai", "j_sho", "j_ka", "j_nou", "j_omo", "j_tabe", "j_mi", "j_ki",
          "j_kanga", "j_kaku", "j_mei", "j_teki", "j_ga", "j_ki2", "j_kare",
          "j_i", "j_kan", "j_ji"}
JapaneseWordChars == Hiragana \cup Katakana \cup Kanji
\* [a-zA-Z]
LatinLetters ==
    {"a", "b", "c", "d", "e", "f", "g", "h", "i", "j", "k", "l", "m", "n", "o",
     "p", "q", "r", "s", "t", "u", "v", "w", "x", "y", "z",
     "A", "B", "C", "D", "E", "F", "G", "H", "I", "J", "K", "L", "M", "N", "O",
     "P", "Q", "R", "S", "T", "U", "V", "W", "X", "Y", "Z"}
\* \w
WordChars == LatinLetters \cup
    {"0", "1", "2", "3", "4", "5", "6", "7", "8", "9", "_"}

\* The phrases of the rules, as character sequences.
RedundantPhrases ==
    << [pattern |-> <<"h_ma", "h_zu", "j_sai", "j_sho", "h_ni">>,
        suggestion |-> "mazu or saishoni"],
       [pattern |-> <<"h_su", "h_ru", "h_ko", "h_to", "h_ga", "h_de", "h_ki", "h_ru">>,
        suggestion |-> "dekiru"],
       [pattern |-> <<"h_su", "h_ru", "h_ko", "h_to", "h_ga", "j_ka", "j_nou">>,
        suggestion |-> "kanou"] >>
WeakPhrases ==
    << <<"h_ka", "h_mo", "h_shi", "h_re", "h_na", "h_i">>,
       <<"j_omo", "h_u">>,
       <<"h_da", "h_ro", "h_u">> >>
RanukiPatterns ==
    << <<"j_tabe", "h_be", "h_re", "h_ru">>,
       <<"j_mi", "h_re", "h_ru">>,
       <<"j_ki", "h_re", "h_ru">>,
       <<"j_kanga", "h_e", "h_re", "h_ru">> >>
AiPhrases ==
    << [pattern |-> <<"j_kaku", "j_mei", "j_teki", "h_na">>, ruleId |-> "no-ai-hype-expressions"],
       [pattern |-> <<"j_ga", "j_ki2", "j_teki", "h_na">>, ruleId |-> "no-ai-hype-expressions"],
       [pattern |-> <<"CHECK">>, ruleId |-> "no-ai-list-formatting"] >>

\* Program constants of the rules.
MaxSentenceLength == 100
MaxJoshiGap == 10
MinJapaneseWord == 2
MinEnglishWord == 3
MinSpacedWord == 2
MinKanjiRun == 7

(***************************************************************************)
(* Regular-expression matching.  A pattern is modelled by the function     *)
(* that gives, for every 0-based position of the line, the length of the   *)
(* match that starts there (0 for none); ExecAll is the loop               *)
(*   while ((m = pattern.exec(lineText)) !== null)                         *)
(* of a /g pattern: the leftmost match from lastIndex, then lastIndex is   *)
(* the end of that match.                                                  *)
(***************************************************************************)
\* The character at 0-based index i, "" outside the line.
Ch(s, i) == IF i >= 0 /\ i < Len(s) THEN s[i + 1] ELSE ""

Positions(s) == 0..(Len(s) - 1)

SetMax(S) == CHOOSE x \in S : \A y \in S : y <= x
SetMin(S) == CHOOSE x \in S : \A y \in S : x <= y

RECURSIVE ExecAll(_, _, _)
ExecAll(ml, len, lastIndex) ==
    LET found == {i \in lastIndex..(len - 1) : ml[i] > 0}
    IN  IF found = {} THEN <<>>
        ELSE LET index == SetMin(found)
             IN  <<index>> \o ExecAll(ml, len, index + ml[index])

\* The first match only: lineText.match(pattern) without /g.
MatchFirst(ml, len) ==
    IF \E i \in 0..(len - 1) : ml[i] > 0
    THEN CHOOSE i \in 0..(len - 1) : ml[i] > 0 /\ \A j \in 0..(i - 1) : ml[j] = 0
    ELSE -1

\* The number of consecutive characters of class C from index i on.
RunLen(s, i, C) ==
    LET stops == {j \in i..(Len(s) - 1) : Ch(s, j) \notin C}
    IN  IF stops = {} THEN Max(0, Len(s) - i) ELSE SetMin(stops) - i

\* /[...]+/ : a maximal run of the class.
ClassRunAt(s, C) == [i \in Positions(s) |-> RunLen(s, i, C)]

\* /[...]{n,}/ : a run of at least n characters of the class.
LongRunAt(s, C, n) ==
    [i \in Positions(s) |-> IF RunLen(s, i, C) >= n THEN RunLen(s, i, C) ELSE 0]

\* /phrase/ : a fixed phrase.
PhraseAt(s, phrase) ==
    [i \in Positions(s) |->
        IF i + Len(phrase) <= Len(s) /\ SubSeq(s, i + 1, i + Len(phrase)) = phrase
        THEN Len(phrase) ELSE 0]

\* /([P])[^P]{0,gap}\1/ : a particle, at most gap other characters, the
\* same particle again.
JoshiGaps(s, i) ==
    {j \in 0..MaxJoshiGap :
        /\ \A k \in 1..j : Ch(s, i + k) # "" /\ Ch(s, i + k) \notin Particles
        /\ Ch(s, i + j + 1) = Ch(s, i)}

DoubleJoshiAt(s) ==
    [i \in Positions(s) |->
        IF Ch(s, i) \in Particles /\ JoshiGaps(s, i) # {}
        THEN SetMax(JoshiGaps(s, i)) + 2 ELSE 0]

\* /([C]{n,})\1/ : the group lengths for which the group is followed by
\* itself; the greedy group takes the longest.
RepeatLengths(s, i, C, n) ==
    {g \in n..Min((Len(s) - i) \div 2, RunLen(s, i, C)) :
        \A k \in 0..(g - 1) : Ch(s, i + k) = Ch(s, i + g + k)}

RepeatGroup(s, i, C, n) ==
    IF RepeatLengths(s, i, C, n) = {} THEN 0 ELSE SetMax(RepeatLengths(s, i, C, n))

RepeatAt(s, C, n) == [i \in Positions(s) |-> 2 * RepeatGroup(s, i, C, n)]

\* \b at index i: exactly one of the characters before and after is a \w.
WordBoundaryAt(s, i) == (Ch(s, i - 1) \in WordChars) # (Ch(s, i) \in WordChars)

\* /\b([a-zA-Z]{n,})\s+\1\b/ : <<group length, white space length>>.
SpacedRepeats(s, i) ==
    IF ~WordBoundaryAt(s, i) THEN {}
    ELSE LET g == RunLen(s, i, LatinLetters)
             m == RunLen(s, i + g, WhiteSpace)
         IN  \* the group ends where the white space begins, and the white
             \* space where the repeated group begins
             {gm \in {<<g, m>>} :
                 /\ g >= MinSpacedWord /\ m >= 1
                 /\ \A k \in 0..(g - 1) : Ch(s, i + g + m + k) = Ch(s, i + k)
                 /\ WordBoundaryAt(s, i + 2 * g + m)}

SpacedRepeatGroup(s, i) ==
    IF SpacedRepeats(s, i) = {} THEN 0
    ELSE SetMax({gm[1] : gm \in SpacedRepeats(s, i)})

SpacedRepeatAt(s) ==
    [i \in Positions(s) |->
        IF SpacedRepeats(s, i) = {} THEN 0
        ELSE LET g == SpacedRepeatGroup(s, i)
             IN  2 * g + SetMax({gm[2] : gm \in {x \in SpacedRepeats(s, i) : x[1] = g}})]

\* /\*\*[^*]+\*\*:/
EmphasisLengths(s, i) ==
    IF Ch(s, i) # "*" \/ Ch(s, i + 1) # "*" THEN {}
    ELSE {n \in {RunLen(s, i + 2, {Ch(s, j) : j \in Positions(s)} \ {"*"})} :
            /\ n >= 1
            /\ Ch(s, i + 2 + n) = "*" /\ Ch(s, i + 3 + n) = "*"
            /\ Ch(s, i + 4 + n) = ":"}

EmphasisAt(s) ==
    [i \in Positions(s) |->
        IF EmphasisLengths(s, i) = {} THEN 0 ELSE SetMax(EmphasisLengths(s, i)) + 5]

\* lineText.indexOf(sub) for a string: 0-based, -1 when absent.
IndexOfSeq(s, sub) ==
    LET found == {i \in 0..(Len(s) - Len(sub)) : SubSeq(s, i + 1, i + Len(sub)) = sub}
    IN  IF found = {} THEN -1 ELSE SetMin(found)

(***************************************************************************)
(* generateMockLintResult(text): the rules, in the order of the source.    *)
(***************************************************************************)
\* A message text: the template, the quoted characters and the number in it.
Text(template, quoted, number) ==
    [template |-> template, quoted |-> quoted, number |-> number]

Message(ruleId, message, line, index, severity) ==
    [type |-> "lint", ruleId |-> ruleId, message |-> message,
     line |-> line, column |-> index + 1, severity |-> severity]

\* One message per element of a list of match indices.
Messages(indices, ruleId, message, line, severity) ==
    [k \in 1..Len(indices) |-> Message(ruleId, message, line, indices[k], severity)]

RECURSIVE Flatten(_)
Flatten(seqs) == IF seqs = <<>> THEN <<>> ELSE Head(seqs) \o Flatten(Tail(seqs))

AllMatches(lineText, ml) == ExecAll(ml, Len(lineText), 0)

\* 1. exclamation and question marks
ExclamationRule(lineText, currentLine) ==
    Messages(AllMatches(lineText, ClassRunAt(lineText, ExclamationChars)),
             "no-exclamation-question-mark", Text("no exclamation or question mark", <<>>, 0),
             currentLine, 2)

\* 2. sentence length: the line split at the sentence delimiters, currentColumn
\* running over the sentences.
RECURSIVE SentenceMessages(_, _, _)
SentenceMessages(sentences, currentColumn, currentLine) ==
    IF sentences = <<>> THEN <<>>
    ELSE LET sentence == Head(sentences)
         IN  (IF Len(sentence) > MaxSentenceLength
              THEN << Message("sentence-length", Text("sentence too long", <<>>, Len(sentence)),
                              currentLine, currentColumn - 1, 2) >>
              ELSE <<>>)
             \o SentenceMessages(Tail(sentences), currentColumn + Len(sentence) + 1,
                                 currentLine)

SentenceLengthRuleKutenOnly(lineText, currentLine) ==
    SentenceMessages(Split(lineText, {"KUTEN"}), 1, currentLine)

SentenceLengthRule(lineText, currentLine) ==
    SentenceMessages(Split(lineText, SentenceDelimiters), 1, currentLine)

\* 3. redundant expressions
RedundantRule(lineText, currentLine) ==
    Flatten([p \in 1..Len(RedundantPhrases) |->
        Messages(AllMatches(lineText, PhraseAt(lineText, RedundantPhrases[p].pattern)),
                 "ja-no-redundant-expression",
                 Text("redundant expression", <<RedundantPhrases[p].suggestion>>, 0),
                 currentLine, 1)])

\* 4. weak phrases
WeakRule(lineText, currentLine) ==
    Flatten([p \in 1..Len(WeakPhrases) |->
        Messages(AllMatches(lineText, PhraseAt(lineText, WeakPhrases[p])),
                 "ja-no-weak-phrase", Text("weak phrase", <<>>, 0), currentLine, 1)])

\* 5. doubled particles: the message names the particle match[1]
DoubledJoshiRule(lineText, currentLine) ==
    LET indices == AllMatches(lineText, DoubleJoshiAt(lineText))
    IN  [k \in 1..Len(indices) |->
            Message("no-doubled-joshi", Text("doubled particle", <<Ch(lineText, indices[k])>>, 0),
                    currentLine, indices[k], 1)]

\* 6. successive words: the message names the group match[1]
SuccessiveMessages(lineText, currentLine, C, n, note) ==
    LET indices == AllMatches(lineText, RepeatAt(lineText, C, n))
    IN  [k \in 1..Len(indices) |->
            Message("ja-no-successive-word",
                    Text(note,
                         SubSeq(lineText, indices[k] + 1,
                                indices[k] + RepeatGroup(lineText, indices[k], C, n)), 0),
                    currentLine, indices[k], 2)]

SpacedSuccessiveMessages(lineText, currentLine) ==
    LET indices == AllMatches(lineText, SpacedRepeatAt(lineText))
    IN  [k \in 1..Len(indices) |->
            Message("ja-no-successive-word",
                    Text("successive word, space separated",
                         SubSeq(lineText, indices[k] + 1,
                                indices[k] + SpacedRepeatGroup(lineText, indices[k])), 0),
                    currentLine, indices[k], 2)]

SuccessiveWordRule(lineText, currentLine) ==
    SuccessiveMessages(lineText, currentLine, JapaneseWordChars, MinJapaneseWord, "successive word")
    \o SuccessiveMessages(lineText, currentLine, LatinLetters, MinEnglishWord, "successive word")
    \o SpacedSuccessiveMessages(lineText, currentLine)

\* 7. ra-nuki
AbusageRule(lineText, currentLine) ==
    Flatten([p \in 1..Len(RanukiPatterns) |->
        Messages(AllMatches(lineText, PhraseAt(lineText, RanukiPatterns[p])),
                 "ja-no-abusage", Text("ra-nuki", <<>>, 0), currentLine, 1)])

\* 8. a run of kanji: the first match only, its column by indexOf
KanjiRule(lineText, currentLine) ==
    LET ml == LongRunAt(lineText, Kanji, MinKanjiRun)
        first == MatchFirst(ml, Len(lineText))
    IN  IF first < 0 THEN <<>>
        ELSE LET kanjiSequence == SubSeq(lineText, first + 1, first + ml[first])
             IN  << Message("max-kanji-continuous-len",
                            Text("kanji run too long", <<>>, Len(kanjiSequence)),
                            currentLine, IndexOfSeq(lineText, kanjiSequence), 1) >>

\* 9. AI patterns
AiRule(lineText, currentLine) ==
    Flatten([p \in 1..Len(AiPhrases) |->
        Messages(AllMatches(lineText, PhraseAt(lineText, AiPhrases[p].pattern)),
                 AiPhrases[p].ruleId, Text("AI pattern", <<>>, 0), currentLine, 1)])
    \o Messages(AllMatches(lineText, EmphasisAt(lineText)),
                "no-ai-emphasis-patterns", Text("AI pattern", <<>>, 0), currentLine, 1)

\* 10. colon: Math.max of the two indexOf
ColonIndexMin(lineText) == Min(IndexOf(lineText, ":"), IndexOf(lineText, "FWCOLON"))

ColonIndexAscii(lineText) == IndexOf(lineText, ":")

ColonIndex(lineText) == Max(IndexOf(lineText, ":"), IndexOf(lineText, "FWCOLON"))

ColonRule(lineText, currentLine) ==
    IF IndexOf(lineText, ":") >= 0 \/ IndexOf(lineText, "FWCOLON") >= 0
    THEN << Message("no-ai-colon-continuation", Text("avoid colon", <<>>, 0),
                    currentLine, ColonIndex(lineText), 1) >>
    ELSE <<>>

LintLineColonFirst(lineText, currentLine) ==
    ColonRule(lineText, currentLine)
    \o ExclamationRule(lineText, currentLine)
    \o SentenceLengthRule(lineText, currentLine)
    \o RedundantRule(lineText, currentLine)
    \o WeakRule(lineText, currentLine)
    \o DoubledJoshiRule(lineText, currentLine)
    \o SuccessiveWordRule(lineText, currentLine)
    \o AbusageRule(lineText, currentLine)
    \o KanjiRule(lineText, currentLine)
    \o AiRule(lineText, currentLine)

LintLine(lineText, currentLine) ==
    ExclamationRule(lineText, currentLine)
    \o SentenceLengthRule(lineText, currentLine)
    \o RedundantRule(lineText, currentLine)
    \o WeakRule(lineText, currentLine)
    \o DoubledJoshiRule(lineText, currentLine)
    \o SuccessiveWordRule(lineText, currentLine)
    \o AbusageRule(lineText, currentLine)
    \o KanjiRule(lineText, currentLine)
    \o AiRule(lineText, currentLine)
    \o ColonRule(lineText, currentLine)

CountSeverity(messages, severity) ==
    Len(SelectSeq(messages, LAMBDA m : m.severity = severity))

GenerateMockLintResult(t) ==
    LET lines == Split(t, {NL})
        messages == Flatten([l \in 1..Len(lines) |-> LintLine(lines[l], l)])
    IN  [messages |-> messages,
         errorCount |-> CountSeverity(messages, 2),
         warningCount |-> CountSeverity(messages, 1)]

(***************************************************************************)
(* The second copy of generateMockLintResult(text): rules 2, 5 and 6 take  *)
(* the first match only; the other rules are those of the first copy.      *)
(***************************************************************************)
\* 2. the length of the whole line
SentenceLengthRuleFirstMatch(lineText, currentLine) ==
    IF Len(lineText) > MaxSentenceLength
    THEN << Message("sentence-length", Text("sentence too long", <<>>, Len(lineText)),
                    currentLine, 0, 2) >>
    ELSE <<>>

\* 5. lineText.match without the g flag; the column by indexOf of the match
DoubledJoshiRuleFirstMatch(lineText, currentLine) ==
    LET ml == DoubleJoshiAt(lineText)
        first == MatchFirst(ml, Len(lineText))
    IN  IF first < 0 THEN <<>>
        ELSE LET doubleJoshi == SubSeq(lineText, first + 1, first + ml[first])
             IN  << Message("no-doubled-joshi",
                            Text("doubled particle", <<Head(doubleJoshi)>>, 0),
                            currentLine, IndexOfSeq(lineText, doubleJoshi), 1) >>

\* \S of a line: its characters that are not white space
NonSpace(lineText) == {lineText[i] : i \in 1..Len(lineText)} \ WhiteSpace

\* 6. /(\S+)\1/ : any run of non-space characters immediately repeated
SuccessiveWordRuleFirstMatch(lineText, currentLine) ==
    LET ml == RepeatAt(lineText, NonSpace(lineText), 1)
        first == MatchFirst(ml, Len(lineText))
    IN  IF first < 0 THEN <<>>
        ELSE LET consecutiveWords == SubSeq(lineText, first + 1, first + ml[first])
             IN  << Message("ja-no-successive-word",
                            Text("successive word",
                                 SubSeq(consecutiveWords, 1, Len(consecutiveWords) \div 2), 0),
                            currentLine, IndexOfSeq(lineText, consecutiveWords), 2) >>

LintLineFirstMatch(lineText, currentLine) ==
    ExclamationRule(lineText, currentLine)
    \o SentenceLengthRuleFirstMatch(lineText, currentLine)
    \o RedundantRule(lineText, currentLine)
    \o WeakRule(lineText, currentLine)
    \o DoubledJoshiRuleFirstMatch(lineText, currentLine)
    \o SuccessiveWordRuleFirstMatch(lineText, currentLine)
    \o AbusageRule(lineText, currentLine)
    \o KanjiRule(lineText, currentLine)
    \o AiRule(lineText, currentLine)
    \o ColonRule(lineText, currentLine)

GenerateMockLintResultFirstMatch(t) ==
    LET lines == Split(t, {NL})
        messages == Flatten([l \in 1..Len(lines) |-> LintLineFirstMatch(lines[l], l)])
    IN  [messages |-> messages,
         errorCount |-> CountSeverity(messages, 2),
         warningCount |-> CountSeverity(messages, 1)]

(***************************************************************************)
(* The Home view: the rule registry, the filter and the memoised values.   *)
(***************************************************************************)
RuleIds ==
    << "no-exclamation-question-mark", "ja-no-successive-word",
       "ja-no-redundant-expression", "ja-no-weak-phrase", "no-doubled-joshi",
       "ja-no-abusage", "no-ai-hype-expressions", "no-ai-list-formatting",
       "no-ai-emphasis-patterns", "no-ai-colon-continuation" >>

InitialRules == [k \in 1..Len(RuleIds) |-> [id |-> RuleIds[k], enabled |-> TRUE]]

Filters == {"all", "error", "warning"}

\* const rule = rules.find(r => r.id === msg.ruleId); return !rule || rule.enabled
RuleEnabledStrict(rs, ruleId) ==
    \E k \in 1..Len(rs) : rs[k].id = ruleId /\ rs[k].enabled

RuleEnabled(rs, ruleId) ==
    LET found == {k \in 1..Len(rs) : rs[k].id = ruleId}
    IN  found = {} \/ rs[SetMin(found)].enabled

FilteredMessages(lr, f, rs) ==
    IF lr = Null THEN <<>>
    ELSE LET ruleFiltered ==
                 SelectSeq(lr[1].messages, LAMBDA msg : RuleEnabled(rs, msg.ruleId))
         IN  IF f = "error" THEN SelectSeq(ruleFiltered, LAMBDA msg : msg.severity = 2)
             ELSE IF f = "warning"
                  THEN SelectSeq(ruleFiltered, LAMBDA msg : msg.severity = 1)
                  ELSE ruleFiltered

\* The counts of the result instead of those of the filtered list.
RenderUnfilteredCounts(lr, f, rs) ==
    [filteredMessages |-> FilteredMessages(lr, f, rs),
     errorCount |-> IF lr = Null THEN 0 ELSE lr[1].errorCount,
     warningCount |-> IF lr = Null THEN 0 ELSE lr[1].warningCount]

\* One render: filteredMessages, errorCount and warningCount (useMemo).
Render(lr, f, rs) ==
    LET filteredMessages == FilteredMessages(lr, f, rs)
    IN  [filteredMessages |-> filteredMessages,
         errorCount |-> CountSeverity(filteredMessages, 2),
         warningCount |-> CountSeverity(filteredMessages, 1)]

\* setRules(prev => prev.map(rule => rule.id === ruleId ? {...rule, enabled: !rule.enabled} : rule))
ToggledRules(rs, ruleId) ==
    [k \in 1..Len(rs) |->
        IF rs[k].id = ruleId THEN [rs[k] EXCEPT !.enabled = ~rs[k].enabled] ELSE rs[k]]

(***************************************************************************)
(* The lint pipeline: the debounced lint effect of Home and lintText.      *)
(* Time advances in steps of TimeStep; a timer whose delay has elapsed     *)
(* runs before time advances and before the next document update.         *)
(***************************************************************************)
DebounceDelay == 300
EngineDelay == 100
TimeStep == EngineDelay \div 2

\* const [isLoading] = useState(false): never set.
isTextlintLoading == FALSE

Timer(t) == [text |-> t, left |-> DebounceDelay, current |-> TRUE]

\* The cleanup of the previous run, clearTimeout(timer), clears the timer that
\* run armed; the timers of the runs before it are no longer held by a cleanup.
Cleanup(ts) == {tm \in ts : ~tm.current}
NoCleanup(ts) == {[tm EXCEPT !.current = FALSE] : tm \in ts}

\* The effect without the blank short-circuit.
LintEffectNoBlankCheck(t, ts, lr) ==
    [timers |-> Cleanup(ts) \cup {Timer(t)}, lintResult |-> lr]

\* The effect without its cleanup function.
LintEffectNoCleanup(t, ts, lr) ==
    IF IsBlank(t) \/ isTextlintLoading
    THEN [timers |-> NoCleanup(ts), lintResult |-> Null]
    ELSE [timers |-> NoCleanup(ts) \cup {Timer(t)}, lintResult |-> lr]

\* The effect arming no timer while one is armed.
LintEffectKeepArmed(t, ts, lr) ==
    IF IsBlank(t) \/ isTextlintLoading
    THEN [timers |-> Cleanup(ts), lintResult |-> Null]
    ELSE [timers |-> IF ts = {} THEN {Timer(t)} ELSE ts, lintResult |-> lr]

\* One run of the effect for the text t, after the cleanup of the previous
\* run: the timers and the lint result it leaves.
LintEffect(t, ts, lr) ==
    IF IsBlank(t) \/ isTextlintLoading
    THEN [timers |-> Cleanup(ts), lintResult |-> Null]
    ELSE [timers |-> Cleanup(ts) \cup {Timer(t)}, lintResult |-> lr]

\* The texts the editor is given in the pipeline.
PipelineTexts ==
    { <<>>, <<" ", NL>>, <<"a", "!">>, <<"j_omo", "h_u">> }

MaxBurst == 3

Due == {tm \in timers : tm.left = 0} \cup {f \in inflight : f.left = 0}

\* The last operation: its name, its text, and whether a debounce timer was
\* armed and a result published when it began.
Op(op, t, hadTimer, hadResult) ==
    [op |-> op, text |-> t, hadTimer |-> hadTimer, hadResult |-> hadResult]

\* The history of a document update at this instant.
Updated(t) ==
    /\ sinceUpdate' = 0
    /\ burstLen' = IF burstLen = 0 \/ sinceUpdate >= DebounceDelay THEN 1 ELSE burstLen + 1
    /\ burstCalls' = IF burstLen = 0 \/ sinceUpdate >= DebounceDelay THEN 0 ELSE burstCalls

\* onChange: setText(e.target.value); the render runs the lint effect.
\* Setting the text it already has renders nothing.
Update(t) ==
    /\ Due = {}
    /\ t # text
    /\ sinceUpdate >= DebounceDelay \/ burstLen < MaxBurst
    /\ text' = t
    /\ LET e == LintEffect(t, timers, lintResult)
       IN  /\ timers' = e.timers
           /\ lintResult' = e.lintResult
    /\ view' = Render(lintResult', filter, rules)
    /\ Updated(t)
    /\ lastOp' = Op("update", t, timers # {}, lintResult # Null)
    /\ UNCHANGED <<filter, rules, inflight, calledWith, resolveVars, variantVars>>

\* handleClear: setText(''); setLintResult(null).  The lint effect runs when
\* the text changes.
HandleClear ==
    /\ Due = {}
    /\ sinceUpdate >= DebounceDelay \/ burstLen < MaxBurst
    /\ text' = <<>>
    /\ lintResult' = Null
    /\ IF text # <<>>
       THEN /\ timers' = LintEffect(<<>>, timers, Null).timers
            /\ Updated(<<>>)
       ELSE UNCHANGED <<timers, sinceUpdate, burstLen, burstCalls>>
    /\ view' = Render(lintResult', filter, rules)
    /\ lastOp' = Op("clear", <<>>, timers # {}, lintResult # Null)
    /\ UNCHANGED <<filter, rules, inflight, calledWith, resolveVars, variantVars>>

\* The debounce timer fires: lintText(text) arms the engine's timer.
FireDebounce(tm) ==
    /\ tm \in timers /\ tm.left = 0
    /\ timers' = timers \ {tm}
    /\ inflight' = inflight \cup {[text |-> tm.text, left |-> EngineDelay]}
    /\ burstCalls' = burstCalls + 1
    /\ calledWith' = Some(tm.text)
    /\ lastOp' = Op("call", tm.text, TRUE, lintResult # Null)
    /\ UNCHANGED <<viewVars, sinceUpdate, burstLen, resolveVars, variantVars>>

\* The engine's timer fires: the promise resolves with the result and the
\* awaiting callback publishes it, setLintResult(result).
Complete(f) ==
    /\ f \in inflight /\ f.left = 0
    /\ inflight' = inflight \ {f}
    /\ lintResult' = Some(GenerateMockLintResult(f.text))
    /\ view' = Render(lintResult', filter, rules)
    /\ lastOp' = Op("publish", f.text, timers # {}, lintResult # Null)
    /\ UNCHANGED <<text, filter, rules, timers, sinceUpdate, burstLen, burstCalls,
                   calledWith, resolveVars, variantVars>>

Tick ==
    /\ Due = {}
    /\ timers # {} \/ inflight # {} \/ sinceUpdate < DebounceDelay
    /\ timers' = {[tm EXCEPT !.left = tm.left - TimeStep] : tm \in timers}
    /\ inflight' = {[f EXCEPT !.left = f.left - TimeStep] : f \in inflight}
    /\ sinceUpdate' = Min(sinceUpdate + TimeStep, DebounceDelay)
    /\ lastOp' = Op("tick", text, timers # {}, lintResult # Null)
    /\ UNCHANGED <<viewVars, burstLen, burstCalls, calledWith, resolveVars, variantVars>>

(***************************************************************************)
(* Specifications.                                                         *)
(***************************************************************************)
ViewIdle ==
    /\ text = <<>> /\ lintResult = Null /\ filter = "all" /\ rules = InitialRules
    /\ view = Render(Null, "all", InitialRules)

PipeIdle ==
    /\ timers = {} /\ inflight = {} /\ sinceUpdate = 0 /\ burstLen = 0
    /\ burstCalls = 0 /\ calledWith = Null /\ lastOp = Op("mount", <<>>, FALSE, FALSE)

ResolveIdle ==
    /\ rText = <<>> /\ rLine = 1 /\ rColumn = 1 /\ rContextLength = 0
    /\ context = Null /\ selection = Null

WorkerIdle ==
    /\ messageId = 0 /\ callbacks = {} /\ posted = {} /\ settled = <<>>

VariantIdle == WorkerIdle /\ firstMatchResult = Null

\* ---- the pipeline: the component mounts with the saved text
InitPipeline ==
    /\ text \in PipelineTexts
    /\ filter = "all" /\ rules = InitialRules
    /\ LET e == LintEffect(text, {}, Null)
       IN  /\ timers = e.timers
           /\ lintResult = e.lintResult
    /\ view = Render(lintResult, filter, rules)
    /\ inflight = {} /\ sinceUpdate = 0 /\ burstLen = 0 /\ burstCalls = 0
    /\ calledWith = Null /\ lastOp = Op("mount", text, FALSE, FALSE)
    /\ ResolveIdle /\ VariantIdle

NextPipeline ==
    \/ \E t \in PipelineTexts : Update(t)
    \/ HandleClear
    \/ \E tm \in timers : FireDebounce(tm)
    \/ \E f \in inflight : Complete(f)
    \/ Tick

SpecPipeline == InitPipeline /\ [][NextPipeline]_vars

\* The event loop runs every timer that is due and time goes on while a timer
\* is armed; nothing makes the user edit.
SpecPipelineFair ==
    /\ InitPipeline /\ [][NextPipeline]_vars
    /\ WF_vars(Tick)
    /\ WF_vars(\E tm \in timers : FireDebounce(tm))
    /\ WF_vars(\E f \in inflight : Complete(f))

\* ---- the position resolver: one call of each consumer on any input
ResolveAlphabet == {"a", ".", NL}
DefaultContextLength == 20
ContextLengths == {0, 1, DefaultContextLength}

RECURSIVE TextsUpTo(_, _)
TextsUpTo(A, n) ==
    IF n = 0 THEN {<<>>}
    ELSE LET shorter == TextsUpTo(A, n - 1)
         IN  shorter \cup {Append(s, c) : s \in shorter, c \in A}

InitResolve ==
    /\ rText \in TextsUpTo(ResolveAlphabet, MaxTextLen)
    /\ rLine \in 0..(MaxTextLen + 2)
    /\ rColumn \in 0..(MaxTextLen + 2)
    /\ rContextLength \in ContextLengths
    /\ context = Null /\ selection = Null
    /\ ViewIdle /\ PipeIdle /\ VariantIdle

CallGetErrorContext ==
    /\ context = Null
    /\ context' = Some(GetErrorContext(rText, rLine, rColumn, rContextLength))
    /\ UNCHANGED <<viewVars, pipeVars, variantVars, rText, rLine, rColumn, rContextLength, selection>>

CallScrollToError ==
    /\ selection = Null
    /\ selection' = Some(ScrollToError(rText, rLine, rColumn))
    /\ UNCHANGED <<viewVars, pipeVars, variantVars, rText, rLine, rColumn, rContextLength, context>>

NextResolve == CallGetErrorContext \/ CallScrollToError

SpecResolve == InitResolve /\ [][NextResolve]_vars

\* ---- the engine alone: lintText on any document
MaxPieces == 2

LongSentence == [i \in 1..(MaxSentenceLength + 1) |-> "-"]
KanjiRun == [i \in 1..MinKanjiRun |-> IF i % 2 = 1 THEN "j_kan" ELSE "j_ji"]

Pieces ==
    { LongSentence, KanjiRun, <<"KUTEN">>, <<NL>>, <<"!">>, <<":">>, <<"FWCOLON">>,
      <<"j_kare", "h_ha">>, <<"k_te", "k_su">>, <<"a", "b", "c">>, <<" ">>,
      <<"j_omo", "h_u">>, <<"*", "*", "-", "*", "*", ":">>, <<"-">> }

RECURSIVE DocsUpTo(_)
DocsUpTo(n) ==
    IF n = 0 THEN {<<>>}
    ELSE LET shorter == DocsUpTo(n - 1)
         IN  shorter \cup {d \o p : d \in shorter, p \in Pieces}

\* the documents of the scenarios: a doubled particle, and ':' at index 5 with
\* the full-width colon at index 10
ScenarioB == <<"j_kare", "h_ha", "j_kare", "h_ha", "j_i", "h_tta", "h_ta">>
ScenarioE == <<"-", "-", "-", "-", "-", ":", "-", "-", "-", "-", "FWCOLON">>

\* a sentence of exactly the limit, then one a character longer
AtLimitThenLong ==
    SubSeq(LongSentence, 1, MaxSentenceLength) \o <<"FWPERIOD">> \o LongSentence \o <<"KUTEN">>

\* two lines with several rules each; in the second the weak phrase listed
\* later stands before two occurrences of the one listed earlier
TwoLines ==
    <<":", "a", "!", NL, "!", "h_da", "h_ro", "h_u", "j_omo", "h_u", "j_omo", "h_u">>

Scenarios == {ScenarioB, ScenarioE, AtLimitThenLong, TwoLines}

InitLint ==
    /\ text \in DocsUpTo(MaxPieces) \cup Scenarios
    /\ lintResult = Null /\ filter = "all" /\ rules = InitialRules
    /\ view = Render(Null, filter, rules)
    /\ PipeIdle /\ ResolveIdle /\ VariantIdle

\* await lintText(text); setLintResult(result)
CallLintText ==
    /\ lintResult = Null
    /\ lintResult' = Some(GenerateMockLintResult(text))
    /\ view' = Render(lintResult', filter, rules)
    /\ UNCHANGED <<text, filter, rules, pipeVars, resolveVars, variantVars>>

\* the same call on the second copy of the hook
CallLintTextFirstMatch ==
    /\ firstMatchResult = Null
    /\ firstMatchResult' = Some(GenerateMockLintResultFirstMatch(text))
    /\ UNCHANGED <<viewVars, pipeVars, resolveVars, workerVars>>

NextLint == CallLintText \/ CallLintTextFirstMatch

SpecLint == InitLint /\ [][NextLint]_vars

\* ---- the view: results, rule toggles and filter changes in any order
ViewTexts ==
    { <<>>,
      <<"a", "!", "j_omo", "h_u">>,
      KanjiRun \o <<":">>,
      <<"k_te", "k_su", "k_te", "k_su", NL, "h_da", "h_ro", "h_u", "?">> }

InitView ==
    /\ text \in ViewTexts
    /\ lintResult = Null /\ filter = "all" /\ rules = InitialRules
    /\ view = Render(Null, filter, rules)
    /\ PipeIdle /\ ResolveIdle /\ VariantIdle

\* The pipeline at rest on the text t: the text is t and the published result
\* is null for a blank t and lint(t) otherwise.
ShowResultOf(t) ==
    /\ text' = t
    /\ lintResult' = IF IsBlank(t) THEN Null ELSE Some(GenerateMockLintResult(t))
    /\ view' = Render(lintResult', filter, rules)
    /\ UNCHANGED <<filter, rules, pipeVars, resolveVars, variantVars>>

\* onClick={() => setFilter(...)}
SetFilter(f) ==
    /\ filter' = f
    /\ view' = Render(lintResult, filter', rules)
    /\ UNCHANGED <<text, lintResult, rules, pipeVars, resolveVars, variantVars>>

\* onCheckedChange={() => toggleRule(rule.id)}
ToggleRule(ruleId) ==
    /\ rules' = ToggledRules(rules, ruleId)
    /\ view' = Render(lintResult, filter, rules')
    /\ UNCHANGED <<text, lintResult, filter, pipeVars, resolveVars, variantVars>>

NextView ==
    \/ \E t \in ViewTexts : ShowResultOf(t)
    \/ \E f \in Filters : SetFilter(f)
    \/ \E k \in 1..Len(rules) : ToggleRule(rules[k].id)

SpecView == InitView /\ [][NextView]_vars

\* ---- the worker client: lint requests to the out-of-process engine
MaxRequests == 3

WorkerTexts == {<<"a", "!">>, <<"j_omo", "h_u">>}

\* worker.postMessage({ id, command: 'lint', text })
Request(id, t) == [id |-> id, command |-> "lint", text |-> t]

\* event.data of the worker's answer: { id, results } or { id, error }; the
\* engine's results for a text are stood for by those of the mock engine
Response(request, failed) ==
    [id      |-> request.id,
     results |-> IF failed THEN Null ELSE Some(GenerateMockLintResult(request.text)),
     error   |-> IF failed THEN Some("error") ELSE Null]

InitWorker == ViewIdle /\ PipeIdle /\ ResolveIdle /\ VariantIdle

\* lintText(text) of the client, called with the document's text: takes the
\* next id, sets the callback of the promise and posts the request
WorkerLintText(t) ==
    /\ messageId < MaxRequests
    /\ messageId' = messageId + 1
    /\ callbacks' = callbacks \cup {messageId}
    /\ posted' = posted \cup {Request(messageId, t)}
    /\ text' = t
    /\ UNCHANGED <<lintResult, filter, rules, view, settled, firstMatchResult,
                   pipeVars, resolveVars>>

\* The worker answers an outstanding request and handleMessage runs the callback
\* set for the id of the answer: the promise rejects on an error and resolves
\* with the results otherwise, and the awaiting caller publishes what it
\* resolved with. latest records the id issued last when the answer came.
HandleMessage(request, failed) ==
    /\ request \in posted
    /\ posted' = posted \ {request}
    /\ LET event == Response(request, failed)
       IN  IF event.id \in callbacks
           THEN /\ settled' = Append(settled,
                        [id      |-> event.id,
                         latest  |-> messageId - 1,
                         outcome |-> IF failed THEN "reject" ELSE "resolve",
                         value   |-> IF failed THEN event.error ELSE event.results])
                /\ callbacks' = callbacks \ {event.id}
                /\ lintResult' = IF failed THEN lintResult ELSE event.results
           ELSE UNCHANGED <<settled, callbacks, lintResult>>
    /\ view' = Render(lintResult', filter, rules)
    /\ UNCHANGED <<text, filter, rules, messageId, firstMatchResult, pipeVars, resolveVars>>

NextWorker ==
    \/ \E t \in WorkerTexts : WorkerLintText(t)
    \/ \E request \in posted : \E failed \in BOOLEAN : HandleMessage(request, failed)

SpecWorker == InitWorker /\ [][NextWorker]_vars

(***************************************************************************)
(* Properties of the lint pipeline (SpecPipeline).                         *)
(***************************************************************************)
\* The only armed debounce timer is the one of the current text.
OneTimerForText == \E tm \in timers : timers = {tm} /\ tm.text = text

\* C1 as stated: every burst of updates, each less than DebounceDelay after the
\* one before, results in exactly one lintText call, made with the text of the
\* last update; until that call the only armed timer is the last update's.
C1_OneCallPerBurst ==
    burstLen >= 1 =>
        IF timers = {}
        THEN burstCalls = 1 /\ calledWith = Some(text)
        ELSE burstCalls = 0 /\ OneTimerForText

\* C1: a burst whose last text is not blank results in exactly one lintText
\* call, made with the text of the last update, and the timers of the earlier
\* updates are cancelled; a burst whose last text is blank results in no call.
C1_OneCallPerNonBlankBurst ==
    burstLen >= 1 =>
        IF IsBlank(text)
        THEN timers = {} /\ burstCalls = 0
        ELSE IF timers = {}
             THEN burstCalls = 1 /\ calledWith = Some(text)
             ELSE burstCalls = 0 /\ OneTimerForText

\* A burst of MaxBurst updates has ended with its single call.
C1_Witness ==
    /\ burstLen >= 3 /\ lastOp.op = "call"
    /\ timers = {} /\ burstCalls = 1 /\ calledWith = Some(text)

\* C2: a result is published only if it was computed from the text of the most
\* recent update.
C2_NoStalePublish == lastOp.op = "publish" => lastOp.text = text

\* C3: at most one lint operation is pending (timer armed) or in flight (engine
\* invoked, result not delivered).
C3_AtMostOneOperation == Cardinality(timers) + Cardinality(inflight) <= 1

\* C4: an update to a blank text leaves no debounce timer armed and the
\* published result null, and no timer or engine invocation is ever started for
\* a blank text.
C4_BlankShortCircuit ==
    /\ (lastOp.op \in {"update", "clear"} /\ IsBlank(text)) =>
            timers = {} /\ lintResult = Null
    /\ \A tm \in timers : ~IsBlank(tm.text)
    /\ \A f \in inflight : ~IsBlank(f.text)
    /\ calledWith # Null => ~IsBlank(calledWith[1])

\* A blank update arrived while a timer was armed and a result was published.
C4_Witness ==
    /\ lastOp.op = "update" /\ IsBlank(text) /\ text # <<>>
    /\ lastOp.hadTimer /\ lastOp.hadResult
    /\ timers = {} /\ lintResult = Null

(***************************************************************************)
(* Properties of the engine (SpecLint).                                    *)
(***************************************************************************)
\* C5: every diagnostic of a lint result has 1 <= line <= lineCount and
\* 1 <= column <= length of that line + 1.
C5_PositionsInRange ==
    lintResult # Null =>
        LET lines == Split(text, {NL})
            messages == lintResult[1].messages
        IN  \A k \in 1..Len(messages) :
                /\ messages[k].line >= 1 /\ messages[k].line <= Len(lines)
                /\ messages[k].column >= 1
                /\ messages[k].column <= Len(lines[messages[k].line]) + 1

\* A sentence-length diagnostic for a sentence that does not begin the line:
\* its column is the running column, past column 1.
C5_Witness ==
    /\ lintResult # Null
    /\ \E k \in 1..Len(lintResult[1].messages) :
          /\ lintResult[1].messages[k].ruleId = "sentence-length"
          /\ lintResult[1].messages[k].column > 1

(***************************************************************************)
(* Properties of the view (SpecView).                                      *)
(***************************************************************************)
NumberWithSeverity(messages, severity) ==
    Cardinality({k \in 1..Len(messages) : messages[k].severity = severity})

\* C6: the counts of a lint result and the displayed counts are those of the
\* list they accompany, and they add up to its length.
C6_CountsDerived ==
    /\ lintResult # Null =>
        /\ lintResult[1].errorCount = NumberWithSeverity(lintResult[1].messages, 2)
        /\ lintResult[1].warningCount = NumberWithSeverity(lintResult[1].messages, 1)
        /\ lintResult[1].errorCount + lintResult[1].warningCount
              = Len(lintResult[1].messages)
    /\ view.errorCount = NumberWithSeverity(view.filteredMessages, 2)
    /\ view.warningCount = NumberWithSeverity(view.filteredMessages, 1)
    /\ view.errorCount + view.warningCount = Len(view.filteredMessages)

\* A rule is disabled, a severity filter is set, and both displayed counts
\* differ from the counts of the result.
C6_Witness ==
    /\ lintResult # Null /\ filter = "error"
    /\ \E k \in 1..Len(rules) : ~rules[k].enabled
    /\ view.errorCount > 0
    /\ view.errorCount < lintResult[1].errorCount
    /\ view.warningCount < lintResult[1].warningCount

\* The diagnostics the filter is to keep.
Kept(m) ==
    /\ ~\E k \in 1..Len(rules) : rules[k].id = m.ruleId /\ ~rules[k].enabled
    /\ \/ filter = "all"
       \/ filter = "error" /\ m.severity = 2
       \/ filter = "warning" /\ m.severity = 1

\* C7: the filtered list is, in the original order, exactly the diagnostics
\* whose rule is not disabled and whose severity matches the filter; with all
\* rules enabled and the filter 'all' it is the original list.
C7_FilterExact ==
    LET messages == IF lintResult = Null THEN <<>> ELSE lintResult[1].messages
        kept == {i \in 1..Len(messages) : Kept(messages[i])}
    IN  /\ Len(view.filteredMessages) = Cardinality(kept)
        /\ \A i \in kept :
              view.filteredMessages[Cardinality({j \in kept : j <= i})] = messages[i]
        /\ (filter = "all" /\ \A k \in 1..Len(rules) : rules[k].enabled) =>
              view.filteredMessages = messages

\* A diagnostic of a rule that is not in the registry passes the filter while a
\* rule is disabled and a severity filter removes other diagnostics.
C7_Witness ==
    /\ lintResult # Null /\ filter = "warning"
    /\ \E k \in 1..Len(rules) : ~rules[k].enabled
    /\ Len(view.filteredMessages) < Len(lintResult[1].messages)
    /\ \E j \in 1..Len(view.filteredMessages) :
          view.filteredMessages[j].ruleId = "max-kanji-continuous-len"

(***************************************************************************)
(* Properties of the position resolver (SpecResolve).                      *)
(***************************************************************************)
rLines == Split(rText, {NL})
LineInRange == rLine >= 1 /\ rLine <= Len(rLines)

\* C8: for a line outside [1, lineCount] neither consumer extracts or selects
\* any text.
C8_OutOfRangeNothingSelected ==
    ~LineInRange =>
        /\ context # Null => context[1].error = <<>>
        /\ selection # Null => selection[1].selectedText = <<>>

\* C9: the text scrollToError selects is the errorText of getErrorContext.
C9_SelectionIsErrorText ==
    (context # Null /\ selection # Null) =>
        selection[1].selectedText = context[1].error

\* The span the resolver is to find at a column of a line: the run of
\* non-boundary characters from the column on, or 1 at a boundary character.
ExpectedSpan(lineText, column) ==
    IF lineText[column] \in WordBoundary THEN 1
    ELSE CHOOSE n \in 1..(Len(lineText) - column + 1) :
            /\ \A k \in 0..(n - 1) : lineText[column + k] \notin WordBoundary
            /\ column + n > Len(lineText) \/ lineText[column + n] \in WordBoundary

SpanResolved(lineText, column) ==
    LET expected == SubSeq(lineText, column, column + ExpectedSpan(lineText, column) - 1)
    IN  /\ expected # <<>>
        /\ context # Null => context[1].error = expected
        /\ selection # Null =>
              /\ selection[1].selectionLength = Len(expected)
              /\ selection[1].selectedText = expected

\* C10 as stated: for every line in [1, lineCount] and column in
\* [1, lineLength + 1] the highlighted text is non-empty and lies in the line.
C10_SpanNeverEmpty ==
    (LineInRange /\ rColumn >= 1 /\ rColumn <= Len(rLines[rLine]) + 1) =>
        /\ context # Null => context[1].error # <<>>
        /\ selection # Null =>
              /\ selection[1].selectedText # <<>>
              /\ selection[1].selectedText
                    = SubSeq(rLines[rLine], rColumn, rColumn + selection[1].selectionLength - 1)

\* C10: for every line in [1, lineCount] and column in [1, lineLength] the
\* span is the run of non-boundary characters from the column on, or 1 at a
\* boundary character, and the highlighted text is that non-empty part of the
\* line; at column lineLength + 1 the span length is 1 and the errorText empty.
C10_SpanAtLegalColumn ==
    LineInRange =>
        /\ (rColumn >= 1 /\ rColumn <= Len(rLines[rLine])) =>
              SpanResolved(rLines[rLine], rColumn)
        /\ rColumn = Len(rLines[rLine]) + 1 =>
              /\ context # Null => context[1].error = <<>>
              /\ selection # Null => selection[1].selectionLength = 1

\* Both consumers resolved a column at a boundary character that is followed
\* by further characters of the line.
C10_Witness ==
    /\ LineInRange /\ context # Null /\ selection # Null
    /\ rColumn >= 1 /\ rColumn < Len(rLines[rLine])
    /\ rLines[rLine][rColumn] \in WordBoundary
    /\ Len(context[1].error) = 1 /\ selection[1].selectionLength = 1

\* One reading of a snippet: the part of the line from index p, n characters
\* long, shown as before + errorText + after with a leading marker exactly when
\* p > 0 and a trailing marker exactly when the part ends before the line does.
RoundTrips(c, lineText, contextLength, p, n) ==
    \E lb \in 0..Min(contextLength, n) : \E la \in 0..Min(contextLength, n - lb) :
        /\ n = lb + Len(c.error) + la
        /\ c.before = (IF p > 0 THEN Ellipsis ELSE <<>>) \o SubSeq(lineText, p + 1, p + lb)
        /\ c.error = SubSeq(lineText, p + lb + 1, p + lb + Len(c.error))
        /\ c.after = SubSeq(lineText, p + n - la + 1, p + n)
                     \o (IF p + n < Len(lineText) THEN Ellipsis ELSE <<>>)

\* C11: for a line in [1, lineCount] and a column >= 1 the snippet without its
\* markers is one contiguous part of the line, before and after hold at most
\* contextLength characters of it, and a marker stands on a side exactly when
\* characters of the line are cut off on that side.
C11_ContextRoundTrip ==
    (LineInRange /\ rColumn >= 1 /\ context # Null) =>
        \E p \in 0..Len(rLines[rLine]) : \E n \in 0..(Len(rLines[rLine]) - p) :
            RoundTrips(context[1], rLines[rLine], rContextLength, p, n)

\* C12: lint of the doubled-particle scenario returns exactly one diagnostic,
\* of rule no-doubled-joshi with a message naming the particle; no other rule
\* emits.
C12_ScenarioBOneDiagnostic ==
    (text = ScenarioB /\ lintResult # Null) =>
        /\ Len(lintResult[1].messages) = 1
        /\ lintResult[1].messages[1].ruleId = "no-doubled-joshi"
        /\ lintResult[1].messages[1].message.quoted = <<"h_ha">>

\* The 1-based places where a kind of colon occurs for the first time in a line.
FirstColons(lineText) ==
    {i \in 1..Len(lineText) :
        /\ lineText[i] \in {":", "FWCOLON"}
        /\ \A j \in 1..(i - 1) : lineText[j] # lineText[i]}

MessagesOf(messages, ruleId, line) ==
    {k \in 1..Len(messages) : messages[k].ruleId = ruleId /\ messages[k].line = line}

\* C13: a line has exactly one no-ai-colon-continuation diagnostic if it holds
\* a colon of either kind and none otherwise; its column is the later of the
\* first ':' and the first full-width colon (the only one when one kind occurs).
C13_ColonLastOfTwo ==
    lintResult # Null =>
        LET lines == Split(text, {NL})
            messages == lintResult[1].messages
        IN  \A l \in 1..Len(lines) :
                LET found == MessagesOf(messages, "no-ai-colon-continuation", l)
                IN  IF FirstColons(lines[l]) = {} THEN found = {}
                    ELSE /\ Cardinality(found) = 1
                         /\ \A k \in found : messages[k].column = SetMax(FirstColons(lines[l]))

\* Both kinds in one line, ':' first: the diagnostic stands at column 11.
C13_Witness ==
    /\ text = ScenarioE
    /\ lintResult # Null
    /\ \E k \in 1..Len(lintResult[1].messages) :
          /\ lintResult[1].messages[k].ruleId = "no-ai-colon-continuation"
          /\ lintResult[1].messages[k].column = 11

\* The 0-based places where a sentence of a line starts: the start of the line
\* and the place after each delimiter.
SentenceStarts(lineText) ==
    {s \in 0..Len(lineText) : s = 0 \/ lineText[s] \in SentenceDelimiters}

\* The length of the sentence starting at s: up to the next delimiter or the end.
SentenceLengthAt(lineText, s) ==
    SetMin({e \in s..Len(lineText) :
               e = Len(lineText) \/ lineText[e + 1] \in SentenceDelimiters}) - s

C15_StaleResponsesIgnored ==
    /\ \A r \in posted : r.id < messageId
    /\ \A r1, r2 \in posted : r1.id = r2.id => r1 = r2
    /\ \A j, k \in 1..Len(settled) : settled[j].id = settled[k].id => j = k
    /\ \A k \in 1..Len(settled) : settled[k].id = settled[k].latest

\* The rules in the order the engine runs them on a line.
RegistrationOrder ==
    << {"no-exclamation-question-mark"}, {"sentence-length"},
       {"ja-no-redundant-expression"}, {"ja-no-weak-phrase"}, {"no-doubled-joshi"},
       {"ja-no-successive-word"}, {"ja-no-abusage"}, {"max-kanji-continuous-len"},
       {"no-ai-hype-expressions", "no-ai-list-formatting", "no-ai-emphasis-patterns"},
       {"no-ai-colon-continuation"} >>

RuleRank(ruleId) == CHOOSE r \in 1..Len(RegistrationOrder) : ruleId \in RegistrationOrder[r]

\* The place of a diagnostic's pattern among the patterns of its rule, read
\* from the diagnostic and from the text at its position.
PatternRank(m, lineText) ==
    LET at(p) == /\ m.column + Len(p) - 1 <= Len(lineText)
                 /\ SubSeq(lineText, m.column, m.column + Len(p) - 1) = p
    IN  CASE m.ruleId = "ja-no-redundant-expression" ->
               CHOOSE p \in 1..Len(RedundantPhrases) :
                   m.message.quoted = <<RedundantPhrases[p].suggestion>>
          [] m.ruleId = "ja-no-weak-phrase" ->
               CHOOSE p \in 1..Len(WeakPhrases) : at(WeakPhrases[p])
          [] m.ruleId = "ja-no-successive-word" ->
               IF m.message.template = "successive word, space separated" THEN 3
               ELSE IF m.message.quoted[1] \in LatinLetters THEN 2 ELSE 1
          [] m.ruleId = "ja-no-abusage" ->
               CHOOSE p \in 1..Len(RanukiPatterns) : at(RanukiPatterns[p])
          [] m.ruleId = "no-ai-hype-expressions" ->
               CHOOSE p \in 1..2 : at(AiPhrases[p].pattern)
          [] m.ruleId = "no-ai-list-formatting" -> 3
          [] m.ruleId = "no-ai-emphasis-patterns" -> 4
          [] OTHER -> 0

EmissionKey(m, lines) ==
    <<m.line, RuleRank(m.ruleId), PatternRank(m, lines[m.line]), m.column>>

RECURSIVE LexLess(_, _)
LexLess(a, b) ==
    /\ a # <<>>
    /\ \/ Head(a) < Head(b)
       \/ Head(a) = Head(b) /\ LexLess(Tail(a), Tail(b))

\* C17: the diagnostics come in emission order: by line, within a line by rule
\* in registration order, within a rule by pattern, and the matches of one
\* pattern by increasing column.
C17_EmissionOrder ==
    lintResult # Null =>
        LET lines == Split(text, {NL})
            messages == lintResult[1].messages
        IN  \A k \in 1..(Len(messages) - 1) :
                LexLess(EmissionKey(messages[k], lines), EmissionKey(messages[k + 1], lines))

\* Line 1 ends on the colon rule and line 2 begins with the exclamation rule;
\* the weak phrase at column 5 comes before the one at column 2.
C17_Witness ==
    /\ text = TwoLines
    /\ lintResult # Null
    /\ \E k \in 1..(Len(lintResult[1].messages) - 1) :
          /\ lintResult[1].messages[k].ruleId = "no-ai-colon-continuation"
          /\ lintResult[1].messages[k + 1].ruleId = "no-exclamation-question-mark"
          /\ lintResult[1].messages[k + 1].line = 2
    /\ \E j, k \in 1..Len(lintResult[1].messages) :
          /\ j < k
          /\ lintResult[1].messages[j].ruleId = "ja-no-weak-phrase"
          /\ lintResult[1].messages[k].ruleId = "ja-no-weak-phrase"
          /\ lintResult[1].messages[j].column = 5
          /\ lintResult[1].messages[k].column = 2

\* What the claim compares of a diagnostic.
Essence(messages) ==
    [k \in 1..Len(messages) |->
        [ruleId |-> messages[k].ruleId, line |-> messages[k].line,
         column |-> messages[k].column, severity |-> messages[k].severity]]

OneMatchPerRule(messages) ==
    \A j, k \in 1..Len(messages) :
        (messages[j].ruleId = messages[k].ruleId /\ messages[j].line = messages[k].line)
            => j = k

\* C18: on a document where every rule has at most one match per line, the
\* two copies of the mock engine return the same diagnostics (rule, line,
\* column, severity) in the same order.
C18_VariantsAgree ==
    (/\ lintResult # Null
     /\ firstMatchResult # Null
     /\ OneMatchPerRule(lintResult[1].messages)
     /\ OneMatchPerRule(firstMatchResult[1].messages))
        => Essence(lintResult[1].messages) = Essence(firstMatchResult[1].messages)

(***************************************************************************)
(* Properties of the lint pipeline, continued (SpecPipeline and             *)
(* SpecPipelineFair).                                                      *)
(***************************************************************************)
\* C19: while the text is blank the published result is null.
C19_BlankTextNullResult == IsBlank(text) => lintResult = Null

\* C20: if the updates stop on a text that is not blank, then from some moment
\* on the published result is the lint of that text, for good.
C20_EventuallyLinted ==
    \A t \in {u \in PipelineTexts : ~IsBlank(u)} :
        <>[](text = t) => <>[](lintResult = Some(GenerateMockLintResult(t)))

\* A burst of several updates has gone quiet with the lint of its last text
\* published and nothing pending.
C20_Witness ==
    /\ ~IsBlank(text) /\ burstLen >= 2 /\ sinceUpdate >= DebounceDelay
    /\ timers = {} /\ inflight = {}
    /\ lastOp.hadResult
    /\ lintResult = Some(GenerateMockLintResult(text))

(***************************************************************************)
(* Properties of the rule registry (SpecView).                             *)
(***************************************************************************)
\* The configuration after the rule at place r has been toggled off.
Disabled(rs, r) == [rs EXCEPT ![r].enabled = FALSE]

\* C21: every diagnostic of a published result belongs to a rule of the
\* registry: disabling some rule of the registry, which toggleRule can do,
\* removes the diagnostic from the filtered list.
C21_EveryRuleInRegistry ==
    lintResult # Null =>
        \A k \in 1..Len(lintResult[1].messages) :
            \E r \in 1..Len(rules) :
                /\ rules[r].id = lintResult[1].messages[k].ruleId
                /\ \A j \in 1..Len(FilteredMessages(lintResult, "all", Disabled(rules, r))) :
                      FilteredMessages(lintResult, "all", Disabled(rules, r))[j]
                          # lintResult[1].messages[k]

====
